---- MODULE Spec2Model ----
(***************************************************************************)
(* Model of the FileToCloudProjectResourceUploader React component         *)
(* (newIDE/app/src/ResourcesList/FileToCloudProjectResourceUploader.js).   *)
(*                                                                         *)
(* The React state (error, isUploading, selectedFiles, uploadProgress),    *)
(* the props and context the component reads, and the pending calls to     *)
(* uploadProjectResourceFiles are the state.  Every event handler is one   *)
(* action.  The passive effect of lines 164-171 is its own action: React   *)
(* runs it after a render whose dependencies changed and before any other  *)
(* event is handled, so every other action is disabled while it is         *)
(* pending.                                                                *)
(***************************************************************************)
EXTENDS Integers, Sequences, FiniteSets, TLC

VARIABLES
  error,               \* React state, line 70
  isUploading,         \* React state, line 71
  selectedFiles,       \* React state, line 72
  uploadProgress,      \* React state, line 78 (a rational [num, den])
  authenticated,       \* authenticatedUser.authenticated (context), line 69
  storageProviderName, \* storageProvider.internalName, lines 74-76
  fileMetadata,        \* prop fileMetadata, line 60
  inFlight,            \* calls of uploadProjectResourceFiles not yet settled
  effectDeps,          \* [canUploadFiles, error] seen by the last effect run
  onUploadChanged,     \* identity of onUpload changed since the last effect run
  uploadCall,          \* history: the upload service call made by the last step
  settled,             \* history: what the last step's settlement did
  lastEvent,           \* history: the last step
  autoUploads,         \* history: automatic uploads since the last selection
  failedAttempt,       \* history: the files of the attempt whose error is shown
  automaticallyOpenInput,      \* prop, line 64
  hasAutomaticallyOpenedInput, \* ref, line 67
  inputClicks,         \* history: calls of inputRef.current.click(), line 151
  resourceKind,        \* options.resourceKind (prop), line 194
  allResourceKindsAndMetadata, \* the imported registry, line 5
  accept               \* the accept attribute of the input, line 194

vars == <<error, isUploading, selectedFiles, uploadProgress, authenticated,
          storageProviderName, fileMetadata, inFlight, effectDeps,
          onUploadChanged, uploadCall, settled, lastEvent, autoUploads,
          failedAttempt, automaticallyOpenInput,
          hasAutomaticallyOpenedInput, inputClicks, resourceKind,
          allResourceKindsAndMetadata, accept>>

layoutState ==
  <<automaticallyOpenInput, hasAutomaticallyOpenedInput, inputClicks>>

inputAttributes == <<resourceKind, allResourceKindsAndMetadata, accept>>

reactState == <<error, isUploading, selectedFiles, uploadProgress>>
props == <<authenticated, storageProviderName, fileMetadata>>

----------------------------------------------------------------------------
(* Bounds *)

\* Longest list of files one picker event delivers.
MaxFiles == 2
\* Saturation of the history counter autoUploads.
MaxCount == 2

----------------------------------------------------------------------------
(* Values *)

\* null / undefined / '' : every falsy value the code tests with !! or ||.
Null == "null"

\* Maximum size of a resource, in megabytes (imported, line 15).
PROJECT_RESOURCE_MAX_SIZE_IN_BYTES == 5

\* The files the picker can deliver: below, at and above the maximum size.
Files ==
  { [name |-> "small.png", size |-> 1],
    [name |-> "valid.png", size |-> PROJECT_RESOURCE_MAX_SIZE_IN_BYTES],
    [name |-> "big.png",   size |-> 2 * PROJECT_RESOURCE_MAX_SIZE_IN_BYTES] }

SeqsUpTo(S, n) == UNION { [1..k -> S] : k \in 0..n }

FileLists == SeqsUpTo(Files, MaxFiles)

StorageProviderNames == {"Cloud", "LocalFile"}

NoFileMetadata == [present |-> FALSE, fileIdentifier |-> Null]
FileMetadatas ==
  { NoFileMetadata, [present |-> TRUE, fileIdentifier |-> "project-1"] }

Urls == {"https://x/1", "https://x/2"}
ResultErrors == {"error-1"}

NoError == [kind |-> "null"]
NoCall == [trigger |-> "none"]
NoSettle == [settled |-> FALSE]
NoProgress == [num |-> 0, den |-> 1]

Min(a, b) == IF a < b THEN a ELSE b

----------------------------------------------------------------------------
(* The upload service (external): one result per file, in order *)

UploadedProjectResourceFiles(files) ==
  { [i \in 1..Len(files) |-> [resourceFile |-> files[i],
                              url |-> answer[i].url,
                              error |-> answer[i].error]] :
      answer \in [1..Len(files) -> [url : Urls \cup {Null},
                                    error : ResultErrors \cup {Null}]] }

----------------------------------------------------------------------------
(* Values derived at each render *)

hasSelectedFiles == Len(selectedFiles) > 0

cloudProjectId ==
  IF fileMetadata.present THEN fileMetadata.fileIdentifier ELSE Null

NoEntry == [filename |-> Null, error |-> Null]

invalidFilesFromMaximum(files) ==
  LET entry(file) ==
        IF file.size >= PROJECT_RESOURCE_MAX_SIZE_IN_BYTES
        THEN [filename |-> file.name, error |-> "too-large"]
        ELSE NoEntry
      mapped == [i \in 1..Len(files) |-> entry(files[i])]
  IN SelectSeq(mapped, LAMBDA e : e # NoEntry)

invalidFiles(files) ==
  LET entry(file) ==
        IF file.size > PROJECT_RESOURCE_MAX_SIZE_IN_BYTES
        THEN [filename |-> file.name, error |-> "too-large"]
        ELSE NoEntry
      mapped == [i \in 1..Len(files) |-> entry(files[i])]
  IN SelectSeq(mapped, LAMBDA e : e # NoEntry)

\* The alerts rendered for the invalid files, lines 216-233.
invalidFileAlerts(files) ==
  [i \in 1..Len(invalidFiles(files)) |->
     IF invalidFiles(files)[i].error = "too-large"
     THEN [message |-> "too-large",
           filename |-> invalidFiles(files)[i].filename]
     ELSE [message |-> "invalid",
           filename |-> invalidFiles(files)[i].filename]]

canUploadWithThisStorageProvider ==
  storageProviderName = "Cloud" /\ fileMetadata.present

isConnected == authenticated

canChooseFilesWhileUploading ==
  isConnected /\ canUploadWithThisStorageProvider

canChooseFiles ==
  ~isUploading /\ isConnected /\ canUploadWithThisStorageProvider

canUploadFilesIgnoringInvalid ==
  /\ ~isUploading
  /\ canChooseFiles
  /\ hasSelectedFiles

canUploadFilesWithoutSelection ==
  /\ ~isUploading
  /\ canChooseFiles
  /\ Len(invalidFiles(selectedFiles)) = 0

canUploadFiles ==
  /\ ~isUploading
  /\ canChooseFiles
  /\ hasSelectedFiles
  /\ Len(invalidFiles(selectedFiles)) = 0

\* The effect of lines 164-171 runs after a render iff one of its
\* dependencies [canUploadFiles, onUpload, error] changed.
EffectPending ==
  \/ onUploadChanged
  \/ effectDeps # [canUploadFiles |-> canUploadFiles, error |-> error]

----------------------------------------------------------------------------
(* getInputAcceptedMimesAndExtensions, lines 33-56 *)

resourceKindToInputAcceptedMimes ==
  [audio |-> <<"audio/aac", "audio/x-wav", "audio/mpeg", "audio/mp3",
               "audio/ogg">>,
   image |-> <<"image/jpeg", "image/png", "image/webp">>,
   font |-> <<"font/ttf", "font/otf">>,
   video |-> <<"video/mp4", "video/webm">>,
   json |-> <<"application/json">>,
   tilemap |-> <<"application/json">>,
   tileset |-> <<"application/json">>,
   bitmapFont |-> << >>]

\* Array.prototype.join.
RECURSIVE join(_, _)
join(list, separator) ==
  IF Len(list) = 0 THEN ""
  ELSE IF Len(list) = 1 THEN list[1]
  ELSE list[1] \o separator \o join(Tail(list), separator)

\* allResourceKindsAndMetadata.find(({ kind }) => kind === resourceKind)
\* || null, as the list of the entries found (none or the first one).
findResourceKindMetadata(kind, registry) ==
  LET matching == SelectSeq(registry, LAMBDA entry : entry.kind = kind)
  IN IF Len(matching) = 0 THEN << >> ELSE <<matching[1]>>

acceptedExtensions(kind, registry) ==
  LET found == findResourceKindMetadata(kind, registry)
  IN IF Len(found) = 0
     THEN << >>
     ELSE [i \in 1..Len(found[1].fileExtensions) |->
             "." \o found[1].fileExtensions[i]]

acceptedMimes(kind) ==
  IF kind \in DOMAIN resourceKindToInputAcceptedMimes
  THEN resourceKindToInputAcceptedMimes[kind]
  ELSE << >>

getInputAcceptedExtensionsAndMimes(kind, registry) ==
  join(acceptedExtensions(kind, registry) \o acceptedMimes(kind), ",")

getInputAcceptedMimesAndExtensions(kind, registry) ==
  join(acceptedMimes(kind) \o acceptedExtensions(kind, registry), ",")

\* The registry of a build that only knows images.
ImageRegistry == <<[kind |-> "image", fileExtensions |-> <<"png", "jpg">>]>>

----------------------------------------------------------------------------
(* The layout effect of lines 146-155 *)

\* inputRef.current is the <input> of line 200, set once mounted.
inputRef == TRUE

shouldOpenInputEachTime(open, hasOpened) == open

\* The condition of line 149.
shouldOpenInput(open, hasOpened) == open /\ ~hasOpened

----------------------------------------------------------------------------
(* Init: the component right after it mounted.  The first effect run saw   *)
(* canUploadFiles = false (nothing selected) and error = null; the layout  *)
(* effect ran once with the initial automaticallyOpenInput.                *)

Mounted(open, kind, registry) ==
  /\ error = NoError
  /\ isUploading = FALSE
  /\ selectedFiles = << >>
  /\ uploadProgress = NoProgress
  /\ authenticated \in BOOLEAN
  /\ storageProviderName \in StorageProviderNames
  /\ fileMetadata \in FileMetadatas
  /\ inFlight = << >>
  /\ effectDeps = [canUploadFiles |-> FALSE, error |-> NoError]
  /\ onUploadChanged = FALSE
  /\ uploadCall = NoCall
  /\ settled = NoSettle
  /\ lastEvent = [type |-> "mount", hadError |-> FALSE, files |-> << >>]
  /\ autoUploads = 0
  /\ failedAttempt = << >>
  /\ automaticallyOpenInput = open
  /\ hasAutomaticallyOpenedInput = shouldOpenInput(open, FALSE)
  /\ inputClicks = IF shouldOpenInput(open, FALSE) /\ inputRef THEN 1 ELSE 0
  /\ resourceKind = kind
  /\ allResourceKindsAndMetadata = registry
  /\ accept = getInputAcceptedMimesAndExtensions(kind, registry)

\* The upload machinery, for an image picker that is not opened
\* automatically.
Init == Mounted(FALSE, "image", ImageRegistry)

Event(type, files) ==
  lastEvent' = [type |-> type, hadError |-> error # NoError, files |-> files]

----------------------------------------------------------------------------
(* onUpload, lines 79-96: the synchronous part, up to the await.           *)

filesToUploadFirstOnly == SubSeq(selectedFiles, 1, 1)

\* The files handed to uploadProjectResourceFiles, line 92.
filesToUpload == selectedFiles

onUpload(trigger) ==
  IF ~inputRef \/ cloudProjectId = Null
  THEN /\ UNCHANGED <<error, isUploading, uploadProgress, inFlight,
                      failedAttempt>>
       /\ uploadCall' = NoCall
  ELSE /\ isUploading' = TRUE
       /\ error' = NoError
       /\ uploadProgress' = NoProgress
       /\ failedAttempt' = << >>
       /\ inFlight' = Append(inFlight,
                             [authenticated |-> authenticated,
                              cloudProjectId |-> cloudProjectId,
                              files |-> filesToUpload])
       /\ uploadCall' = [trigger |-> trigger,
                         files |-> filesToUpload,
                         failedAttempt |-> failedAttempt,
                         authenticated |-> authenticated,
                         cloudProjectId |-> cloudProjectId,
                         storageProviderName |-> storageProviderName,
                         hasFileMetadata |-> fileMetadata.present,
                         errorBefore |-> error,
                         wasUploading |-> isUploading,
                         after |-> lastEvent]

----------------------------------------------------------------------------
(* The effect of lines 164-171 *)

shouldAutoUploadIgnoringError == canUploadFiles

shouldAutoUpload == canUploadFiles /\ error = NoError

useEffectAutoUpload ==
  /\ EffectPending
  /\ effectDeps' = [canUploadFiles |-> canUploadFiles, error |-> error]
  /\ onUploadChanged' = FALSE
  /\ IF shouldAutoUpload
     THEN onUpload("auto")
     ELSE /\ UNCHANGED <<error, isUploading, uploadProgress, inFlight,
                         failedAttempt>>
          /\ uploadCall' = NoCall
  /\ autoUploads' = IF uploadCall' # NoCall
                    THEN Min(autoUploads + 1, MaxCount)
                    ELSE autoUploads
  /\ settled' = NoSettle
  /\ Event("effect", << >>)
  /\ UNCHANGED <<layoutState, inputAttributes>>
  /\ UNCHANGED <<selectedFiles, props>>

----------------------------------------------------------------------------
(* The Retry button, lines 247-255: rendered iff error, onClick = onUpload *)

retryAlwaysShown == TRUE

retryShown == error # NoError

RetryClick ==
  /\ ~EffectPending
  /\ retryShown
  /\ onUpload("retry")
  /\ settled' = NoSettle
  /\ Event("retry", << >>)
  /\ UNCHANGED <<layoutState, inputAttributes>>
  /\ UNCHANGED <<selectedFiles, props, effectDeps, onUploadChanged,
                 autoUploads>>

----------------------------------------------------------------------------
(* The file input, lines 193-212: disabled unless canChooseFiles *)

errorKeptOnChange == error

\* setError(null), line 210.
errorAfterOnChange == NoError

filesAppendedOnChange(files) == selectedFiles \o files

\* The array built from event.currentTarget.files, lines 203-207.
filesAfterOnChange(files) == files

InputOnChange(files) ==
  /\ ~EffectPending
  /\ canChooseFiles
  /\ selectedFiles' = filesAfterOnChange(files)
  /\ error' = errorAfterOnChange
  /\ onUploadChanged' = TRUE
  /\ autoUploads' = 0
  /\ failedAttempt' = << >>
  /\ uploadCall' = NoCall
  /\ settled' = NoSettle
  /\ Event("onChange", files)
  /\ UNCHANGED <<layoutState, inputAttributes>>
  /\ UNCHANGED <<isUploading, uploadProgress, props, inFlight, effectDeps>>

----------------------------------------------------------------------------
(* Completion of the awaited call, lines 97-117 *)

erroredResults(results) == SelectSeq(results, LAMBDA r : r.error # Null)

okResults(results) == SelectSeq(results, LAMBDA r : r.url # Null)

OrEmpty(url) == IF url = Null THEN "" ELSE url

newResourceNamedAfterUrl(result) ==
  [file |-> OrEmpty(result.url),
   name |-> OrEmpty(result.url),
   originName |-> "cloud-project-resource",
   originIdentifier |-> OrEmpty(result.url)]

\* createNewResource() followed by setFile, setName, setOrigin.
newResource(result) ==
  [file |-> OrEmpty(result.url),
   name |-> result.resourceFile.name,
   originName |-> "cloud-project-resource",
   originIdentifier |-> OrEmpty(result.url)]

thrownError(result) == [kind |-> "result", result |-> result]

lastErroredResult(results) ==
  erroredResults(results)[Len(erroredResults(results))]

\* erroredResults[0], line 100.
firstErroredResult(results) == erroredResults(results)[1]

\* What the try block does with the results: the value thrown (NoError if
\* nothing is thrown) and the calls it makes.
tryResults(results, callbackThrows) ==
  IF Len(erroredResults(results)) > 0
  THEN [thrown |-> thrownError(firstErroredResult(results)),
        chooseCalls |-> << >>,
        created |-> 0]
  ELSE IF Len(okResults(results)) > 0
  THEN [thrown |-> IF callbackThrows
                   THEN [kind |-> "thrown", by |-> "onChooseResources"]
                   ELSE NoError,
        chooseCalls |-> << [i \in 1..Len(okResults(results)) |->
                              newResource(okResults(results)[i])] >>,
        created |-> Len(okResults(results))]
  ELSE [thrown |-> NoError, chooseCalls |-> << >>, created |-> 0]

\* The try block as a whole: the awaited call rejects or returns results.
tryUpload(outcome, callbackThrows) ==
  IF outcome.rejected
  THEN [thrown |-> [kind |-> "thrown", by |-> "uploadProjectResourceFiles"],
        chooseCalls |-> << >>,
        created |-> 0]
  ELSE tryResults(outcome.results, callbackThrows)

errorWithoutCatch(thrown) ==
  IF thrown # NoError /\ thrown.kind = "result" THEN thrown ELSE error

\* catch (line 114): setError(error) only if something was thrown.
errorAfterCatch(thrown) == IF thrown # NoError THEN thrown ELSE error

isUploadingWithoutFinally(thrown) == thrown # NoError

\* finally (line 116): setIsUploading(false).
isUploadingAfterFinally(thrown) == FALSE

UploadOutcomes(files) ==
  { [rejected |-> TRUE, results |-> << >>] } \cup
  { [rejected |-> FALSE, results |-> rs] :
      rs \in UploadedProjectResourceFiles(files) }

\* onChooseResources (or createNewResource) returns or throws; it is only
\* called when line 102 is reached.
CallbackBehaviours(outcome) ==
  IF /\ ~outcome.rejected
     /\ Len(erroredResults(outcome.results)) = 0
     /\ Len(okResults(outcome.results)) > 0
  THEN BOOLEAN
  ELSE {FALSE}

UploadSettles ==
  /\ ~EffectPending
  /\ Len(inFlight) > 0
  /\ \E outcome \in UploadOutcomes(Head(inFlight).files) :
     \E callbackThrows \in CallbackBehaviours(outcome) :
       LET done == tryUpload(outcome, callbackThrows) IN
         /\ error' = errorAfterCatch(done.thrown)
         /\ isUploading' = isUploadingAfterFinally(done.thrown)
         /\ settled' = [settled |-> TRUE,
                        files |-> Head(inFlight).files,
                        outcome |-> outcome,
                        callbackThrows |-> callbackThrows,
                        thrown |-> done.thrown,
                        chooseCalls |-> done.chooseCalls,
                        created |-> done.created]
         /\ failedAttempt' = IF done.thrown # NoError
                             THEN Head(inFlight).files
                             ELSE << >>
  /\ inFlight' = Tail(inFlight)
  /\ uploadCall' = NoCall
  /\ Event("settle", << >>)
  /\ UNCHANGED <<layoutState, inputAttributes>>
  /\ UNCHANGED <<selectedFiles, uploadProgress, props, effectDeps,
                 onUploadChanged, autoUploads>>

RECURSIVE Gcd(_, _)
Gcd(a, b) == IF b = 0 THEN a ELSE Gcd(b, a % b)

\* The rational num / den in lowest terms (den > 0).
Rational(num, den) ==
  [num |-> num \div Gcd(num, den), den |-> den \div Gcd(num, den)]

progressFraction(current, total) == Rational(current, total)

\* (current / total) * 100, line 94, as an exact rational.
progressPercent(current, total) == Rational(current * 100, total)

\* The progress callback of lines 93-95, called by the service while the
\* upload is in flight with total = number of files.

OnProgress(current) ==
  /\ ~EffectPending
  /\ Len(inFlight) > 0
  /\ current \in 0..Len(Head(inFlight).files)
  /\ uploadProgress' = progressPercent(current, Len(Head(inFlight).files))
  /\ uploadCall' = NoCall
  /\ settled' = NoSettle
  /\ lastEvent' = [type |-> "progress", hadError |-> error # NoError,
                   files |-> << >>, current |-> current,
                   total |-> Len(Head(inFlight).files)]
  /\ UNCHANGED <<layoutState, inputAttributes>>
  /\ UNCHANGED <<error, isUploading, selectedFiles, props, inFlight,
                 effectDeps, onUploadChanged, autoUploads, failedAttempt>>

----------------------------------------------------------------------------
(* Re-renders caused by the parent or the context *)

\* AuthenticatedUserContext delivers a new authenticatedUser (line 69).
AuthenticatedUserChanges ==
  /\ ~EffectPending
  /\ authenticated' = ~authenticated
  /\ onUploadChanged' = TRUE
  /\ uploadCall' = NoCall
  /\ settled' = NoSettle
  /\ Event("authenticatedUser", << >>)
  /\ UNCHANGED <<layoutState, inputAttributes>>
  /\ UNCHANGED <<reactState, storageProviderName, fileMetadata, inFlight,
                 effectDeps, autoUploads, failedAttempt>>

\* A new getStorageProvider prop: the memo of lines 74-76 is recomputed.
StorageProviderChanges(name) ==
  /\ ~EffectPending
  /\ name \in StorageProviderNames \ {storageProviderName}
  /\ storageProviderName' = name
  /\ uploadCall' = NoCall
  /\ settled' = NoSettle
  /\ Event("storageProvider", << >>)
  /\ UNCHANGED <<layoutState, inputAttributes>>
  /\ UNCHANGED <<reactState, authenticated, fileMetadata, inFlight,
                 effectDeps, onUploadChanged, autoUploads, failedAttempt>>

\* A new fileMetadata prop: cloudProjectId (line 77) changes with it.
FileMetadataChanges(metadata) ==
  /\ ~EffectPending
  /\ metadata \in FileMetadatas \ {fileMetadata}
  /\ fileMetadata' = metadata
  /\ onUploadChanged' = TRUE
  /\ uploadCall' = NoCall
  /\ settled' = NoSettle
  /\ Event("fileMetadata", << >>)
  /\ UNCHANGED <<layoutState, inputAttributes>>
  /\ UNCHANGED <<reactState, authenticated, storageProviderName, inFlight,
                 effectDeps, autoUploads, failedAttempt>>

\* New onChooseResources / createNewResource props: a new onUpload.
CallbacksChange ==
  /\ ~EffectPending
  /\ onUploadChanged' = TRUE
  /\ uploadCall' = NoCall
  /\ settled' = NoSettle
  /\ Event("callbacks", << >>)
  /\ UNCHANGED <<layoutState, inputAttributes>>
  /\ UNCHANGED <<reactState, props, inFlight, effectDeps, autoUploads,
                 failedAttempt>>

\* A new automaticallyOpenInput prop: the layout effect of lines 147-155
\* re-runs at the commit of that render.
AutomaticallyOpenInputChanges ==
  /\ ~EffectPending
  /\ automaticallyOpenInput' = ~automaticallyOpenInput
  /\ IF shouldOpenInput(automaticallyOpenInput', hasAutomaticallyOpenedInput)
     THEN /\ hasAutomaticallyOpenedInput' = TRUE
          /\ inputClicks' = IF inputRef
                            THEN Min(inputClicks + 1, MaxCount)
                            ELSE inputClicks
     ELSE UNCHANGED <<hasAutomaticallyOpenedInput, inputClicks>>
  /\ uploadCall' = NoCall
  /\ settled' = NoSettle
  /\ lastEvent' = [type |-> "automaticallyOpenInput",
                   hadError |-> error # NoError,
                   files |-> << >>,
                   hadOpened |-> hasAutomaticallyOpenedInput]
  /\ UNCHANGED <<reactState, props, inFlight, effectDeps, onUploadChanged,
                 autoUploads, failedAttempt, inputAttributes>>

----------------------------------------------------------------------------

Next ==
  \/ useEffectAutoUpload
  \/ RetryClick
  \/ \E files \in FileLists : InputOnChange(files)
  \/ UploadSettles
  \/ \E current \in 0..(MaxFiles + 1) : OnProgress(current)
  \/ AuthenticatedUserChanges
  \/ \E name \in StorageProviderNames : StorageProviderChanges(name)
  \/ \E metadata \in FileMetadatas : FileMetadataChanges(metadata)
  \/ CallbacksChange

Spec == Init /\ [][Next]_vars

----------------------------------------------------------------------------
(* The component with a changing automaticallyOpenInput prop *)

InitOpenInput == \E open \in BOOLEAN : Mounted(open, "image", ImageRegistry)

NextOpenInput == Next \/ AutomaticallyOpenInputChanges

SpecOpenInput == InitOpenInput /\ [][NextOpenInput]_vars

----------------------------------------------------------------------------
(* The accept attribute, for every resource kind and registry *)

\* Longest registry.
MaxKinds == 2
\* Longest list of file extensions of a registry entry.
MaxExtensions == 2

\* The kinds of the table of lines 33-42 and one kind it does not have.
ResourceKinds ==
  {"audio", "image", "font", "video", "json", "tilemap", "tileset",
   "bitmapFont", "model3D"}

RegistryKinds == {"image", "bitmapFont", "model3D"}

FileExtensions == {"png", "glb"}

Registries ==
  SeqsUpTo([kind : RegistryKinds,
            fileExtensions : SeqsUpTo(FileExtensions, MaxExtensions)],
           MaxKinds)

InitAccept ==
  /\ \E kind \in ResourceKinds, registry \in Registries :
       Mounted(FALSE, kind, registry)
  /\ canChooseFiles

\* A new options prop: the input is rendered with a new accept attribute.
OptionsChange(kind) ==
  /\ kind \in ResourceKinds \ {resourceKind}
  /\ resourceKind' = kind
  /\ accept' = getInputAcceptedMimesAndExtensions(kind,
                                                  allResourceKindsAndMetadata)
  /\ uploadCall' = NoCall
  /\ settled' = NoSettle
  /\ Event("options", << >>)
  /\ UNCHANGED <<reactState, props, inFlight, effectDeps, onUploadChanged,
                 autoUploads, failedAttempt, layoutState,
                 allResourceKindsAndMetadata>>

NextAccept == \E kind \in ResourceKinds : OptionsChange(kind)

SpecAccept == InitAccept /\ [][NextAccept]_vars

----------------------------------------------------------------------------
(* Properties *)

IsTooLarge(file) == file.size > PROJECT_RESOURCE_MAX_SIZE_IN_BYTES

NoFileTooLarge(files) == \A i \in 1..Len(files) : ~IsTooLarge(files[i])

\* C1: no upload attempt, automatic or by Retry, is ever invoked with a file
\* larger than PROJECT_RESOURCE_MAX_SIZE_IN_BYTES, and every such file of
\* the current selection is in the invalid list with reason 'too-large'.
C1_NoTooLargeFileUploaded ==
  /\ uploadCall # NoCall => NoFileTooLarge(uploadCall.files)
  /\ \A k \in 1..Len(inFlight) : NoFileTooLarge(inFlight[k].files)
  /\ \A i \in 1..Len(selectedFiles) :
       IsTooLarge(selectedFiles[i]) =>
         \E j \in 1..Len(invalidFiles(selectedFiles)) :
           invalidFiles(selectedFiles)[j] =
             [filename |-> selectedFiles[i].name, error |-> "too-large"]

\* The scenario of C1: an eligible user selected one too large file, the
\* effect ran, and nothing was uploaded.
C1_Witness ==
  /\ lastEvent.type = "effect"
  /\ canChooseFiles
  /\ Len(selectedFiles) = 1
  /\ IsTooLarge(selectedFiles[1])
  /\ Len(invalidFiles(selectedFiles)) = 1
  /\ uploadCall = NoCall
  /\ inFlight = << >>

\* The conditions C2 lists, written out.
C2_Conditions ==
  /\ ~isUploading
  /\ authenticated
  /\ storageProviderName = "Cloud"
  /\ fileMetadata.present
  /\ Len(selectedFiles) >= 1
  /\ Len(invalidFiles(selectedFiles)) = 0
  /\ error = NoError

C3_AutoUploadOncePerSelection == autoUploads <= 1

AllUploaded(results) ==
  \A i \in 1..Len(results) :
    results[i].url # Null /\ results[i].error = Null

\* C4: when an attempt of N files settles with a url and no error in every
\* result, onChooseResources is called once with N new resources, the i-th
\* having file = the i-th url, name = the i-th file's name and origin
\* ('cloud-project-resource', the i-th url).
C4_ResourcesOfSuccessfulBatch ==
  (settled.settled /\ ~settled.outcome.rejected
     /\ AllUploaded(settled.outcome.results)) =>
    /\ Len(settled.chooseCalls) = 1
    /\ settled.created = Len(settled.files)
    /\ Len(settled.chooseCalls[1]) = Len(settled.files)
    /\ \A i \in 1..Len(settled.files) :
         settled.chooseCalls[1][i] =
           [file |-> settled.outcome.results[i].url,
            name |-> settled.files[i].name,
            originName |-> "cloud-project-resource",
            originIdentifier |-> settled.outcome.results[i].url]

C4_Witness ==
  /\ settled.settled
  /\ ~settled.outcome.rejected
  /\ AllUploaded(settled.outcome.results)
  /\ Len(settled.files) = 2
  /\ settled.files[1] # settled.files[2]
  /\ settled.outcome.results[1].url # settled.outcome.results[2].url
  /\ Len(settled.chooseCalls) = 1

HasErrored(results) == \E i \in 1..Len(results) : results[i].error # Null

IsFirstErrored(results, i) ==
  /\ results[i].error # Null
  /\ \A j \in 1..(i - 1) : results[j].error = Null

\* C5: when an attempt settles with at least one errored result, error is
\* the first errored result in result order, onChooseResources is not
\* called and no resource is created.
C5_FirstErrorAndNoResources ==
  (settled.settled /\ ~settled.outcome.rejected
     /\ HasErrored(settled.outcome.results)) =>
    /\ \E i \in 1..Len(settled.outcome.results) :
         /\ IsFirstErrored(settled.outcome.results, i)
         /\ error = [kind |-> "result", result |-> settled.outcome.results[i]]
    /\ settled.chooseCalls = << >>
    /\ settled.created = 0

\* A batch whose first file was uploaded and whose second file errored.
C5_Witness ==
  /\ settled.settled
  /\ ~settled.outcome.rejected
  /\ Len(settled.outcome.results) = 2
  /\ settled.outcome.results[1].url # Null
  /\ settled.outcome.results[1].error = Null
  /\ settled.outcome.results[2].error # Null
  /\ error = [kind |-> "result", result |-> settled.outcome.results[2]]
  /\ ~isUploading

\* C6: every upload attempt, automatic or by Retry, starts in a state with
\* at least one selected file, no invalid file, an authenticated session, the
\* Cloud storage provider with file metadata, and no unresolved error.
C6_UploadOnlyWhenEligible ==
  uploadCall # NoCall =>
    /\ Len(uploadCall.files) >= 1
    /\ Len(invalidFiles(uploadCall.files)) = 0
    /\ uploadCall.authenticated
    /\ uploadCall.storageProviderName = "Cloud"
    /\ uploadCall.hasFileMetadata
    /\ uploadCall.errorBefore = NoError

\* C7: at most one call of the upload service is in flight at any time, and
\* no call is made while another has not settled.
C7_AtMostOneInFlight ==
  /\ Len(inFlight) <= 1
  /\ uploadCall # NoCall => ~uploadCall.wasUploading

\* An upload is in flight and the effect re-ran (its dependencies changed)
\* without starting a second one.
C7_Witness ==
  /\ Len(inFlight) = 1
  /\ lastEvent.type = "effect"
  /\ uploadCall = NoCall
  /\ ~EffectPending

\* C8: with an error outstanding, a file selection clears the error and
\* replaces the selection; the effect that follows starts an upload of the
\* new selection iff it is non-empty and has no invalid file.
C8_SelectionAfterError ==
  /\ [][(error # NoError /\ lastEvent'.type = "onChange") =>
          /\ error' = NoError
          /\ selectedFiles' = lastEvent'.files
          /\ uploadCall' = NoCall
          /\ canChooseFiles']_vars
  /\ [][(lastEvent.type = "onChange" /\ lastEvent.hadError) =>
          /\ lastEvent'.type = "effect"
          /\ IF Len(selectedFiles) > 0 /\ NoFileTooLarge(selectedFiles)
             THEN /\ uploadCall'.trigger = "auto"
                  /\ uploadCall'.files = selectedFiles
                  /\ inFlight' = <<[authenticated |-> authenticated,
                                    cloudProjectId |-> cloudProjectId,
                                    files |-> selectedFiles]>>
             ELSE /\ uploadCall' = NoCall
                  /\ inFlight' = << >>]_vars

C8_Witness ==
  /\ uploadCall.trigger = "auto"
  /\ uploadCall.after.type = "onChange"
  /\ uploadCall.after.hadError
  /\ uploadCall.files = selectedFiles
  /\ error = NoError

\* C9: once the call of the upload service settled, isUploading is false,
\* whatever the outcome (results ok, a result errored, the call rejected,
\* onChooseResources threw); isUploading is true only while a call is in
\* flight.
C9_UploadingClearedWhenSettled ==
  /\ lastEvent.type = "settle" => ~isUploading
  /\ isUploading => Len(inFlight) > 0

\* The attempt settled with onChooseResources throwing.
C9_Witness ==
  /\ settled.settled
  /\ settled.thrown = [kind |-> "thrown", by |-> "onChooseResources"]
  /\ ~isUploading
  /\ inFlight = << >>

\* C10 as stated: an outstanding error is reset to null by no other event
\* than a file selection, and no automatic upload starts while it is there.
C10_ErrorClearedOnlyBySelection ==
  [][error # NoError =>
       /\ uploadCall'.trigger # "auto"
       /\ error' = NoError => lastEvent'.type = "onChange"]_vars

\* C10 amended: an outstanding error is reset to null only by a file
\* selection or by a Retry click that starts a new attempt, and no
\* automatic upload starts while it is there.
C10_ErrorClearedOnlyBySelectionOrRetry ==
  [][error # NoError =>
       /\ uploadCall'.trigger # "auto"
       /\ error' # error =>
            \/ lastEvent'.type = "onChange" /\ error' = NoError
            \/ /\ lastEvent'.type = "retry"
               /\ error' = NoError
               /\ uploadCall'.trigger = "retry"]_vars

\* A Retry click cleared the error and started a new attempt.
C10_Witness ==
  /\ lastEvent.type = "retry"
  /\ lastEvent.hadError
  /\ error = NoError
  /\ uploadCall.trigger = "retry"
  /\ isUploading

\* C11: the Retry control is rendered exactly when an upload error is
\* outstanding, and then the selection is non-empty and has no invalid
\* file: Retry is never offered for a validation error.
C11_RetryOnlyForUploadErrors ==
  /\ retryShown <=> error # NoError
  /\ error # NoError =>
       /\ Len(selectedFiles) > 0
       /\ Len(invalidFiles(selectedFiles)) = 0
       /\ ~isUploading

\* The error of a failed attempt is shown after the effect ran.
C11_Witness ==
  /\ error # NoError
  /\ retryShown
  /\ lastEvent.type = "effect"
  /\ Len(selectedFiles) = 2
  /\ ~EffectPending

\* C13: the selection changes only while the picker is enabled, that is
\* while not uploading, authenticated and on the Cloud provider with file
\* metadata; it never changes while an upload is in flight, and the
\* selection when an attempt settles is the file list the attempt was
\* started with.
C13_SelectionFixedWhileUploading ==
  /\ [][selectedFiles' # selectedFiles =>
          /\ ~isUploading
          /\ authenticated
          /\ storageProviderName = "Cloud"
          /\ fileMetadata.present
          /\ inFlight = << >>]_vars
  /\ [](\A k \in 1..Len(inFlight) : inFlight[k].files = selectedFiles)
  /\ [](settled.settled => settled.files = selectedFiles)

\* An attempt of two files settled after the user logged out during the
\* upload: the selection is still the one that was uploaded.
C13_Witness ==
  /\ settled.settled
  /\ Len(settled.files) = 2
  /\ settled.files = selectedFiles
  /\ ~authenticated

\* C14: when the upload service call rejects or onChooseResources throws,
\* the thrown value becomes the error, isUploading is false, Retry is
\* rendered, and the effect that follows starts no upload.
C14_ThrownFailureStored ==
  /\ [](settled.settled /\ settled.thrown.kind = "thrown" =>
          /\ \/ settled.outcome.rejected
             \/ settled.callbackThrows /\ Len(settled.chooseCalls) = 1
          /\ error = settled.thrown
          /\ ~isUploading
          /\ retryShown)
  /\ [](settled.settled /\ settled.outcome.rejected =>
          error = [kind |-> "thrown", by |-> "uploadProjectResourceFiles"])
  /\ [](settled.settled /\ settled.callbackThrows
          /\ Len(settled.chooseCalls) = 1 =>
          error = [kind |-> "thrown", by |-> "onChooseResources"])
  /\ [][settled.settled /\ settled.thrown.kind = "thrown" =>
          uploadCall'.trigger # "auto"]_vars

\* The upload service call rejected.
C14_Witness ==
  /\ settled.settled
  /\ settled.outcome.rejected
  /\ error = [kind |-> "thrown", by |-> "uploadProjectResourceFiles"]
  /\ retryShown
  /\ ~isUploading

\* C12: a Retry invokes the upload service with the whole current
\* selection, which is the file list of the failed attempt in the same
\* order, the files that had been uploaded included.
C12_RetryUploadsWholeSelection ==
  uploadCall.trigger = "retry" =>
    /\ Len(uploadCall.files) >= 1
    /\ uploadCall.files = selectedFiles
    /\ uploadCall.files = uploadCall.failedAttempt
    /\ inFlight = <<[authenticated |-> authenticated,
                     cloudProjectId |-> cloudProjectId,
                     files |-> uploadCall.failedAttempt]>>

\* The failed attempt had two different files and its first errored result
\* was the second file's: Retry uploads both again.
C12_Witness ==
  /\ uploadCall.trigger = "retry"
  /\ Len(uploadCall.files) = 2
  /\ uploadCall.files[1] # uploadCall.files[2]
  /\ uploadCall.errorBefore.kind = "result"
  /\ uploadCall.errorBefore.result.resourceFile = uploadCall.files[2]
  /\ uploadCall.files = uploadCall.failedAttempt

\* C15: every upload attempt starts with isUploading = true, error = null
\* and uploadProgress = 0; each progress callback (current, total) sets
\* uploadProgress to 100 * current / total, which is within [0, 100] for
\* 0 <= current <= total, total > 0; settling leaves uploadProgress alone.
C15_ProgressPercentage ==
  /\ [](uploadCall # NoCall =>
          /\ isUploading
          /\ error = NoError
          /\ uploadProgress.num = 0
          /\ Len(inFlight) > 0)
  /\ [](lastEvent.type = "progress" =>
          /\ uploadProgress.den > 0
          /\ uploadProgress.num * lastEvent.total =
               100 * lastEvent.current * uploadProgress.den)
  /\ [](/\ 0 <= uploadProgress.num
        /\ uploadProgress.num <= 100 * uploadProgress.den)
  /\ [][lastEvent'.type = "settle" => uploadProgress' = uploadProgress]_vars

\* Half of a two-file upload is reported: 50 percent.
C15_Witness ==
  /\ lastEvent.type = "progress"
  /\ lastEvent.current = 1
  /\ lastEvent.total = 2
  /\ uploadProgress = [num |-> 50, den |-> 1]
  /\ isUploading

RECURSIVE TooLargeEntries(_)
TooLargeEntries(files) ==
  IF files = << >>
  THEN << >>
  ELSE (IF Head(files).size > PROJECT_RESOURCE_MAX_SIZE_IN_BYTES
        THEN <<[filename |-> Head(files).name, error |-> "too-large"]>>
        ELSE << >>) \o TooLargeEntries(Tail(files))

\* C16: the invalid list of the selection has, in selection order, one
\* entry (filename, 'too-large') per file strictly above the maximum size
\* and nothing else; a file of exactly the maximum size is valid and is
\* uploaded; no entry has another reason, so no generic alert is rendered.
C16_InvalidFilesOfSelection ==
  /\ invalidFiles(selectedFiles) = TooLargeEntries(selectedFiles)
  /\ \A i \in 1..Len(selectedFiles) :
       selectedFiles[i].size = PROJECT_RESOURCE_MAX_SIZE_IN_BYTES =>
         \A j \in 1..Len(invalidFiles(selectedFiles)) :
           invalidFiles(selectedFiles)[j].filename # selectedFiles[i].name
  /\ \A j \in 1..Len(invalidFileAlerts(selectedFiles)) :
       invalidFileAlerts(selectedFiles)[j].message = "too-large"
  /\ (/\ lastEvent.type = "effect"
      /\ uploadCall = NoCall
      /\ canChooseFiles
      /\ error = NoError
      /\ Len(selectedFiles) > 0) =>
       \E i \in 1..Len(selectedFiles) :
         selectedFiles[i].size > PROJECT_RESOURCE_MAX_SIZE_IN_BYTES

\* A file of exactly the maximum size, selected after a too large one, is
\* being uploaded by the automatic upload.
C16_Witness ==
  /\ uploadCall.trigger = "auto"
  /\ uploadCall.files =
       <<[name |-> "valid.png", size |-> PROJECT_RESOURCE_MAX_SIZE_IN_BYTES]>>
  /\ invalidFiles(selectedFiles) = << >>
  /\ invalidFiles(<<[name |-> "big.png",
                     size |-> 2 * PROJECT_RESOURCE_MAX_SIZE_IN_BYTES],
                    [name |-> "valid.png",
                     size |-> PROJECT_RESOURCE_MAX_SIZE_IN_BYTES]>>) =
       <<[filename |-> "big.png", error |-> "too-large"]>>

\* C17: a file selection replaces the selection by exactly the files of
\* the picker event, in their order, sets error to null and leaves
\* isUploading and uploadProgress unchanged.
C17_SelectionReplaced ==
  [][lastEvent'.type = "onChange" =>
       /\ selectedFiles' = lastEvent'.files
       /\ error' = NoError
       /\ isUploading' = isUploading
       /\ uploadProgress' = uploadProgress
       /\ inFlight' = inFlight]_vars

\* A one-file selection replaced the two-file selection of a failed upload
\* whose progress is still shown.
C17_Witness ==
  /\ lastEvent.type = "onChange"
  /\ lastEvent.hadError
  /\ Len(selectedFiles) = 1
  /\ selectedFiles = lastEvent.files
  /\ uploadProgress = [num |-> 50, den |-> 1]
  /\ error = NoError

\* C18: inputRef.current.click() is called at most once in the lifetime of
\* the component, and only in a render whose automaticallyOpenInput is
\* true; later renders, with automaticallyOpenInput true again, never
\* click a second time.
C18_InputOpenedAtMostOnce ==
  /\ [](inputClicks <= 1)
  /\ [](inputClicks = 1 <=> hasAutomaticallyOpenedInput)
  /\ [](automaticallyOpenInput => hasAutomaticallyOpenedInput)
  /\ [][inputClicks' # inputClicks =>
          /\ automaticallyOpenInput'
          /\ ~hasAutomaticallyOpenedInput
          /\ lastEvent'.type = "automaticallyOpenInput"]_vars

\* automaticallyOpenInput became true again after the input had been
\* opened: no second click.
C18_Witness ==
  /\ lastEvent.type = "automaticallyOpenInput"
  /\ lastEvent.hadOpened
  /\ automaticallyOpenInput
  /\ inputClicks = 1

RECURSIVE JoinedUpTo(_, _)
JoinedUpTo(list, n) ==
  IF n = 0 THEN ""
  ELSE IF n = 1 THEN list[1]
  ELSE JoinedUpTo(list, n - 1) \o "," \o list[n]

\* The entry of the registry for the kind is its first entry of that kind.
IsMetadataOf(i, kind, registry) ==
  /\ registry[i].kind = kind
  /\ \A j \in 1..(i - 1) : registry[j].kind # kind

InRegistry(kind, registry) ==
  \E i \in 1..Len(registry) : registry[i].kind = kind

Dotted(extensions) == [i \in 1..Len(extensions) |-> "." \o extensions[i]]

\* C19: the accept attribute is the comma-joined list of the MIME types of
\* the table for the kind, in table order, followed by the file extensions
\* of the kind's metadata, each prefixed with '.', in metadata order; a
\* kind absent from the table gives no MIME type, a kind absent from the
\* registry gives no extension, a kind absent from both gives ''.
C19_AcceptedMimesAndExtensions ==
  LET kind == resourceKind
      registry == allResourceKindsAndMetadata
      inTable == kind \in DOMAIN resourceKindToInputAcceptedMimes
      mimes == IF inTable THEN resourceKindToInputAcceptedMimes[kind]
               ELSE << >>
  IN /\ \A i \in 1..Len(registry) :
          IsMetadataOf(i, kind, registry) =>
            LET all == mimes \o Dotted(registry[i].fileExtensions)
            IN accept = JoinedUpTo(all, Len(all))
     /\ ~InRegistry(kind, registry) => accept = JoinedUpTo(mimes, Len(mimes))
     /\ (~inTable /\ ~InRegistry(kind, registry)) => accept = ""
     /\ (kind = "image"
           /\ registry = <<[kind |-> "image",
                            fileExtensions |-> <<"png", "glb">>]>>) =>
          accept = "image/jpeg,image/png,image/webp,.png,.glb"

\* The options changed to a kind that has MIME types and, as the second
\* entry of the registry, two extensions.
C19_Witness ==
  /\ lastEvent.type = "options"
  /\ resourceKind = "image"
  /\ Len(allResourceKindsAndMetadata) = 2
  /\ allResourceKindsAndMetadata[2] =
       [kind |-> "image", fileExtensions |-> <<"png", "glb">>]
  /\ allResourceKindsAndMetadata[1].kind = "model3D"
  /\ accept = "image/jpeg,image/png,image/webp,.png,.glb"

====
